---- MODULE Spec2Model ----
(***************************************************************************)
(* A model of the harvest client (package harvest): the shared token       *)
(* bucket of a Client, the paginated sequences returned by                 *)
(* Invoices/Customers/Expenses (fetchIter over fetchAll), and the two      *)
(* stage streaming upload of CreateExpense (encoder and transmitter joined *)
(* by an io.Pipe and an errgroup), the single-page operations             *)
(* FetchInvoices/FetchCustomers/FetchExpenses, and concurrent callers of   *)
(* the Client's operations, with GetCompanyInfo and its cache, against the *)
(* clock of the bucket.                                                    *)
(***************************************************************************)
EXTENDS Integers, Sequences, FiniteSets, TLC

\* ------------------------------------------------------------------ bounds
\* Longest link chain the server holds, most elements on one page, and how
\* many times the consumer ranges over one sequence value.
MaxPages == 3
MaxPageLen == 2
MaxRanges == 2
\* Most chunks the byte source of an upload delivers.
MaxFileChunks == 2
\* Most operations the concurrent callers start, most requests of a burst, and
\* how many time steps the clock runs.
MaxCalls == 3
MaxRequests == 102
MaxSteps == 4

\* ------------------------------------------------------- program constants
\* ratelimit.NewBucket(15*time.Second/100, 100): capacity of the bucket.
Capacity == 100
StatusOK == 200
StatusCreated == 201

VARIABLES
    level,      \* tokens in the Client's bucket
    granted,    \* tokens handed out by bucket.Wait(1) so far
    sent,       \* requests handed to hv.client.Do so far
    pages,      \* the server's link chain: a sequence of pages, each a sequence of raw records
    ipc,        \* position of the sequence: none, idle, top, wait, do, yieldErr, check, yieldObj
    buf,        \* fetchIter: var buf []*T
    url,        \* fetchIter: url (0 is the empty string, k > 0 the URL of page k)
    items,      \* fetchIter: items of the pending fetchAll result
    next,       \* fetchIter: next of the pending fetchAll result
    err,        \* fetchIter: err of the pending fetchAll result
    out,        \* every pair handed to yield so far, in order
    fetchLog,   \* every call of fetchAll so far: the URL and the error it returned
    ranges,     \* number of range loops started over the sequence value
    ended,      \* how the latest range loop ended: "none", "return" (the iterator returned) or "break"
    exhausted,  \* some range loop over the sequence value ended by the iterator returning
    cpc,        \* CreateExpense: none (not called), running, returned
    job,        \* CreateExpense: the descriptor e, as far as the upload depends on it
    epc,        \* encoder stage: none, run, blocked (inside a pipe write), ret (returned), done (recorded)
    eidx,       \* encoder stage: number of the next write of its script
    eres,       \* encoder stage: the error its function returned
    pend,       \* io.Pipe: the write waiting for a reader (at most one)
    wcloses,    \* io.Pipe: number of times pw.Close was called
    rclosed,    \* io.Pipe: pr.Close was called
    tpc,        \* transmitter stage: none, wait, call, do, drain, ret (returned), done (recorded)
    tstatus,    \* transmitter stage: status of the response, 0 without one
    tres,       \* transmitter stage: the error its function returned
    body,       \* the chunks the Transport read from the request body, in order
    sawEOF,     \* the Transport read the request body to its end
    drained,    \* the chunks the deferred io.Copy(io.Discard, pr) read, in order
    gerr,       \* errgroup: the error recorded first, with the stage it came from
    wg,         \* errgroup: stages started and not yet finished
    ret,        \* the error CreateExpense returned
    now,        \* time since New, in halves of the refill interval
    calls,      \* for each concurrent caller, the operation it is in and its position
    started,    \* operations started by the concurrent callers so far
    company,    \* hv.company: "nil" or the cached company
    companyWriters, \* the callers that assigned hv.company
    fpc,        \* FetchInvoices / FetchCustomers / FetchExpenses: none, wait, do, ret, returned
    fresp,      \* the response its fetchAll got
    fa,         \* what its fetchAll returned: results, links.Next, err
    fres,       \* what the operation returned: result, err
    winStart,   \* the time at which the observed window of one refill interval begins, -1 before
    inWindow    \* tokens granted inside the observed window

uploadVars == <<cpc, job, epc, eidx, eres, pend, wcloses, rclosed, tpc, tstatus, tres, body,
                sawEOF, drained, gerr, wg, ret>>
iterVars == <<pages, ipc, buf, url, items, next, err, out, fetchLog, ranges, ended, exhausted>>
bucketVars == <<level, granted, sent>>
callVars == <<now, calls, started, company, companyWriters>>
fetchVars == <<fpc, fresp, fa, fres>>
windowVars == <<winStart, inWindow>>

\* --------------------------------------------------------------- the server
NilObj == [page |-> 0, idx |-> 0, Hv |-> "nil"]

\* The raw record number i of page k, as the server sends it.
Raw(k, i) == [page |-> k, idx |-> i]

\* A page of n raw records.
PageOf(k, n) == [i \in 1..n |-> Raw(k, i)]

\* Every link chain of 1..MaxPages pages with 0..MaxPageLen records each.
PageChains ==
    UNION { { [k \in 1..n |-> PageOf(k, sz[k])] : sz \in [1..n -> 0..MaxPageLen] } : n \in 1..MaxPages }

\* What can go wrong with one request.
Faults == {"none", "transport", "status", "malformed", "nolinks", "nofield"}

\* The response to GET url under a fault: page k links to page k+1 iff k is not the last.
Respond(chain, u, fault) ==
    [ transportErr |-> fault = "transport",
      status       |-> IF fault = "status" THEN StatusCreated ELSE StatusOK,
      wellFormed   |-> fault # "malformed",
      hasLinks     |-> fault # "nolinks",
      linksNext    |-> IF u < Len(chain) THEN u + 1 ELSE 0,
      hasField     |-> fault # "nofield",
      records      |-> chain[u] ]

\* No response yet, and no result of fetchAll yet.
NoResp ==
    [ transportErr |-> FALSE, status |-> 0, wellFormed |-> FALSE, hasLinks |-> FALSE,
      linksNext |-> 0, hasField |-> FALSE, records |-> <<>> ]
NoResult == [items |-> <<>>, next |-> 0, err |-> "nil"]

\* ----------------------------------------------------------------- fetchAll
\* fetchAllResult without the test of the status code.
fetchAllAnyStatus(resp) ==
    IF resp.transportErr THEN [items |-> <<>>, next |-> 0, err |-> "transport"]
    ELSE IF ~resp.wellFormed THEN [items |-> <<>>, next |-> 0, err |-> "decode"]
    ELSE IF ~resp.hasLinks THEN [items |-> <<>>, next |-> 0, err |-> "decode"]
    ELSE IF ~resp.hasField THEN [items |-> <<>>, next |-> 0, err |-> "decode"]
    ELSE [ items |-> [i \in 1..Len(resp.records) |->
                        [page |-> resp.records[i].page, idx |-> resp.records[i].idx, Hv |-> "hv"]],
           next  |-> resp.linksNext,
           err   |-> "nil" ]

\* fetchAllResult taking an envelope without the element field for an empty page.
fetchAllLenientField(resp) ==
    IF resp.transportErr THEN [items |-> <<>>, next |-> 0, err |-> "transport"]
    ELSE IF resp.status # StatusOK THEN [items |-> <<>>, next |-> 0, err |-> "status"]
    ELSE IF ~resp.wellFormed THEN [items |-> <<>>, next |-> 0, err |-> "decode"]
    ELSE IF ~resp.hasLinks THEN [items |-> <<>>, next |-> 0, err |-> "decode"]
    ELSE IF ~resp.hasField THEN [items |-> <<>>, next |-> resp.linksNext, err |-> "nil"]
    ELSE [ items |-> [i \in 1..Len(resp.records) |->
                        [page |-> resp.records[i].page, idx |-> resp.records[i].idx, Hv |-> "hv"]],
           next  |-> resp.linksNext,
           err   |-> "nil" ]

\* fetchAllResult leaving the Hv field of the results as decoded.
fetchAllNoBackRef(resp) ==
    IF resp.transportErr THEN [items |-> <<>>, next |-> 0, err |-> "transport"]
    ELSE IF resp.status # StatusOK THEN [items |-> <<>>, next |-> 0, err |-> "status"]
    ELSE IF ~resp.wellFormed THEN [items |-> <<>>, next |-> 0, err |-> "decode"]
    ELSE IF ~resp.hasLinks THEN [items |-> <<>>, next |-> 0, err |-> "decode"]
    ELSE IF ~resp.hasField THEN [items |-> <<>>, next |-> 0, err |-> "decode"]
    ELSE [ items |-> [i \in 1..Len(resp.records) |->
                        [page |-> resp.records[i].page, idx |-> resp.records[i].idx, Hv |-> "nil"]],
           next  |-> resp.linksNext,
           err   |-> "nil" ]

\* The decoding half of fetchAll: from the response to (results, links.Next, err).
fetchAllResult(resp) ==
    IF resp.transportErr THEN [items |-> <<>>, next |-> 0, err |-> "transport"]
    ELSE IF resp.status # StatusOK THEN [items |-> <<>>, next |-> 0, err |-> "status"]
    ELSE IF ~resp.wellFormed THEN [items |-> <<>>, next |-> 0, err |-> "decode"]
    ELSE IF ~resp.hasLinks THEN [items |-> <<>>, next |-> 0, err |-> "decode"]
    ELSE IF ~resp.hasField THEN [items |-> <<>>, next |-> 0, err |-> "decode"]
    ELSE [ items |-> [i \in 1..Len(resp.records) |->
                        [page |-> resp.records[i].page, idx |-> resp.records[i].idx, Hv |-> "hv"]],
           next  |-> resp.linksNext,
           err   |-> "nil" ]

\* ------------------------------------------------------------------- bucket
\* ratelimit.NewBucket(15*time.Second/100, 100): the refill interval in milliseconds.
FillInterval == (15 * 1000) \div 100

\* The observed window [winStart, winStart + FillInterval) contains the present time.
WindowOpen == winStart >= 0 /\ now < winStart + FillInterval

\* BucketWait that does not wait: the token is taken whether or not one is there.
BucketWaitNoGuard ==
    /\ level' = level - 1
    /\ granted' = granted + 1
    /\ inWindow' = IF WindowOpen THEN inWindow + 1 ELSE inWindow

\* hv.bucket.Wait(1): returns once a token is there, and takes it.
BucketWait ==
    /\ level >= 1
    /\ level' = level - 1
    /\ granted' = granted + 1
    /\ inWindow' = IF WindowOpen THEN inWindow + 1 ELSE inWindow

\* One refill interval passes: the bucket gains a token, up to its capacity.
Tick ==
    /\ level < Capacity
    /\ level' = level + 1
    /\ UNCHANGED <<granted, sent>>
    /\ UNCHANGED iterVars
    /\ UNCHANGED uploadVars
    /\ UNCHANGED callVars
    /\ UNCHANGED fetchVars
    /\ UNCHANGED windowVars

\* ---------------------------------------------------------------- fetchIter
\* Invoices fetching the first page while it builds the sequence.
InvoicesEager ==
    /\ ipc = "none"
    /\ BucketWait
    /\ sent' = sent + 1
    /\ \E chain \in PageChains :
         LET r == fetchAllResult(Respond(chain, 1, "none")) IN
           /\ pages' = chain
           /\ buf' = r.items
           /\ url' = r.next
           /\ fetchLog' = Append(fetchLog, [url |-> 1, err |-> r.err])
    /\ ipc' = "idle"
    /\ UNCHANGED <<items, next, err, out, ranges, ended>>
    /\ UNCHANGED uploadVars
    /\ UNCHANGED exhausted
    /\ UNCHANGED callVars
    /\ UNCHANGED fetchVars
    /\ UNCHANGED winStart

\* Client.Invoices / Customers / Expenses: build the URL, declare buf, return the closure.
Invoices ==
    /\ ipc = "none"
    /\ \E chain \in PageChains : pages' = chain
    /\ ipc' = "idle"
    /\ buf' = <<>>
    /\ url' = 1
    /\ UNCHANGED <<items, next, err, out, fetchLog, ranges, ended>>
    /\ UNCHANGED bucketVars
    /\ UNCHANGED uploadVars
    /\ UNCHANGED exhausted
    /\ UNCHANGED callVars
    /\ UNCHANGED fetchVars
    /\ UNCHANGED windowVars

\* A variant that rebuilds the cursor at every range.
RangeStartRestarts ==
    /\ ipc = "idle"
    /\ ranges < MaxRanges
    /\ ranges' = ranges + 1
    /\ ended' = "none"
    /\ ipc' = "top"
    /\ buf' = <<>>
    /\ url' = 1
    /\ UNCHANGED <<pages, items, next, err, out, fetchLog>>
    /\ UNCHANGED bucketVars
    /\ UNCHANGED uploadVars
    /\ UNCHANGED exhausted
    /\ UNCHANGED callVars
    /\ UNCHANGED fetchVars
    /\ UNCHANGED windowVars

\* The consumer starts a range loop over the sequence value: the closure is called.
RangeStart ==
    /\ ipc = "idle"
    /\ ranges < MaxRanges
    /\ ranges' = ranges + 1
    /\ ended' = "none"
    /\ ipc' = "top"
    /\ UNCHANGED <<pages, buf, url, items, next, err, out, fetchLog>>
    /\ UNCHANGED bucketVars
    /\ UNCHANGED uploadVars
    /\ UNCHANGED exhausted
    /\ UNCHANGED callVars
    /\ UNCHANGED fetchVars
    /\ UNCHANGED windowVars

\* LoopTop with the test of the buffer dropped: a page is fetched whenever a URL is left.
LoopTopFetchAhead ==
    /\ ipc = "top"
    /\ ipc' = IF url # 0 THEN "wait" ELSE "check"
    /\ UNCHANGED <<pages, buf, url, items, next, err, out, fetchLog, ranges, ended>>
    /\ UNCHANGED bucketVars
    /\ UNCHANGED uploadVars
    /\ UNCHANGED exhausted
    /\ UNCHANGED callVars
    /\ UNCHANGED fetchVars
    /\ UNCHANGED windowVars

\* The test at the top of the loop: fetch when the buffer is empty and a URL is left.
LoopTop ==
    /\ ipc = "top"
    /\ ipc' = IF Len(buf) = 0 /\ url # 0 THEN "wait" ELSE "check"
    /\ UNCHANGED <<pages, buf, url, items, next, err, out, fetchLog, ranges, ended>>
    /\ UNCHANGED bucketVars
    /\ UNCHANGED uploadVars
    /\ UNCHANGED exhausted
    /\ UNCHANGED callVars
    /\ UNCHANGED fetchVars
    /\ UNCHANGED windowVars

\* fetchAll, up to hv.bucket.Wait(1).
FetchWait ==
    /\ ipc = "wait"
    /\ BucketWait
    /\ ipc' = "do"
    /\ UNCHANGED sent
    /\ UNCHANGED <<pages, buf, url, items, next, err, out, fetchLog, ranges, ended>>
    /\ UNCHANGED uploadVars
    /\ UNCHANGED exhausted
    /\ UNCHANGED callVars
    /\ UNCHANGED fetchVars
    /\ UNCHANGED winStart

\* FetchDo with the yield of the error dropped: a failed fetch just ends the closure.
FetchDoSilent ==
    /\ ipc = "do"
    /\ \E fault \in Faults :
         LET r == fetchAllResult(Respond(pages, url, fault)) IN
           /\ fetchLog' = Append(fetchLog, [url |-> url, err |-> r.err])
           /\ IF r.err # "nil"
                THEN /\ items' = r.items
                     /\ next' = r.next
                     /\ err' = r.err
                     /\ ipc' = "idle"
                     /\ ended' = "return"
                     /\ UNCHANGED <<buf, url, out>>
                ELSE /\ buf' = r.items
                     /\ url' = r.next
                     /\ ipc' = "check"
                     /\ UNCHANGED <<items, next, err, out, ended>>
    /\ sent' = sent + 1
    /\ UNCHANGED <<level, granted>>
    /\ UNCHANGED <<pages, ranges>>
    /\ UNCHANGED uploadVars
    /\ UNCHANGED exhausted
    /\ UNCHANGED callVars
    /\ UNCHANGED fetchVars
    /\ UNCHANGED windowVars

\* fetchAll from hv.client.Do to its return, and fetchIter up to the yield of the
\* error or, without one, the assignment of buf and url.
FetchDo ==
    /\ ipc = "do"
    /\ \E fault \in Faults :
         LET r == fetchAllResult(Respond(pages, url, fault)) IN
           /\ fetchLog' = Append(fetchLog, [url |-> url, err |-> r.err])
           /\ IF r.err # "nil"
                THEN /\ items' = r.items
                     /\ next' = r.next
                     /\ err' = r.err
                     /\ out' = Append(out, [obj |-> NilObj, err |-> r.err])
                     /\ ipc' = "yieldErr"
                     /\ UNCHANGED <<buf, url>>
                ELSE /\ buf' = r.items
                     /\ url' = r.next
                     /\ ipc' = "check"
                     /\ UNCHANGED <<items, next, err, out>>
    /\ sent' = sent + 1
    /\ UNCHANGED <<level, granted>>
    /\ UNCHANGED <<pages, ranges, ended>>
    /\ UNCHANGED uploadVars
    /\ UNCHANGED exhausted
    /\ UNCHANGED callVars
    /\ UNCHANGED fetchVars
    /\ UNCHANGED windowVars

\* YieldErrReturns assigning buf and url from the failed fetchAll before it looks
\* at what yield returned: a stop at the error element clears the cursor too.
YieldErrReturnsClears ==
    /\ ipc = "yieldErr"
    /\ buf' = items
    /\ url' = next
    /\ \E more \in BOOLEAN :
         IF more
           THEN /\ ipc' = "check"
                /\ UNCHANGED ended
           ELSE /\ ipc' = "idle"
                /\ ended' = "break"
    /\ UNCHANGED <<pages, items, next, err, out, fetchLog, ranges>>
    /\ UNCHANGED bucketVars
    /\ UNCHANGED uploadVars
    /\ UNCHANGED exhausted
    /\ UNCHANGED callVars
    /\ UNCHANGED fetchVars
    /\ UNCHANGED windowVars

\* YieldErrReturns going round the loop with buf and url as they were: the failed
\* URL is fetched again.
YieldErrReturnsRetry ==
    /\ ipc = "yieldErr"
    /\ \E more \in BOOLEAN :
         IF more
           THEN /\ ipc' = "top"
                /\ UNCHANGED <<buf, url, ended>>
           ELSE /\ ipc' = "idle"
                /\ ended' = "break"
                /\ UNCHANGED <<buf, url>>
    /\ UNCHANGED <<pages, items, next, err, out, fetchLog, ranges>>
    /\ UNCHANGED bucketVars
    /\ UNCHANGED uploadVars
    /\ UNCHANGED exhausted
    /\ UNCHANGED callVars
    /\ UNCHANGED fetchVars
    /\ UNCHANGED windowVars

\* yield(nil, err) returns: false ends the closure, true goes on to buf = items; url = next.
YieldErrReturns ==
    /\ ipc = "yieldErr"
    /\ \E more \in BOOLEAN :
         IF more
           THEN /\ buf' = items
                /\ url' = next
                /\ ipc' = "check"
                /\ UNCHANGED ended
           ELSE /\ ipc' = "idle"
                /\ ended' = "break"
                /\ UNCHANGED <<buf, url>>
    /\ UNCHANGED <<pages, items, next, err, out, fetchLog, ranges>>
    /\ UNCHANGED bucketVars
    /\ UNCHANGED uploadVars
    /\ UNCHANGED exhausted
    /\ UNCHANGED callVars
    /\ UNCHANGED fetchVars
    /\ UNCHANGED windowVars

\* CheckAndPop handing the consumer a pair of nil and nil at the end of the buffer.
CheckAndPopYieldsNil ==
    /\ ipc = "check"
    /\ IF Len(buf) = 0
         THEN /\ out' = Append(out, [obj |-> NilObj, err |-> "nil"])
              /\ ipc' = "idle"
              /\ ended' = "return"
              /\ exhausted' = TRUE
              /\ UNCHANGED buf
         ELSE /\ out' = Append(out, [obj |-> Head(buf), err |-> "nil"])
              /\ buf' = Tail(buf)
              /\ ipc' = "yieldObj"
              /\ UNCHANGED <<ended, exhausted>>
    /\ UNCHANGED <<pages, url, items, next, err, fetchLog, ranges>>
    /\ UNCHANGED bucketVars
    /\ UNCHANGED uploadVars
    /\ UNCHANGED callVars
    /\ UNCHANGED fetchVars
    /\ UNCHANGED windowVars

\* if len(buf) == 0 { return }; obj := buf[0]; buf = buf[1:]; yield(obj, nil) is called.
CheckAndPop ==
    /\ ipc = "check"
    /\ IF Len(buf) = 0
         THEN /\ ipc' = "idle"
              /\ ended' = "return"
              /\ exhausted' = TRUE
              /\ UNCHANGED <<buf, out>>
         ELSE /\ out' = Append(out, [obj |-> Head(buf), err |-> "nil"])
              /\ buf' = Tail(buf)
              /\ ipc' = "yieldObj"
              /\ UNCHANGED <<ended, exhausted>>
    /\ UNCHANGED <<pages, url, items, next, err, fetchLog, ranges>>
    /\ UNCHANGED bucketVars
    /\ UNCHANGED uploadVars
    /\ UNCHANGED callVars
    /\ UNCHANGED fetchVars
    /\ UNCHANGED windowVars

\* yield(obj, nil) returns: false ends the closure, true goes round the loop.
YieldObjReturns ==
    /\ ipc = "yieldObj"
    /\ \E more \in BOOLEAN :
         IF more
           THEN /\ ipc' = "top"
                /\ UNCHANGED ended
           ELSE /\ ipc' = "idle"
                /\ ended' = "break"
    /\ UNCHANGED <<pages, buf, url, items, next, err, out, fetchLog, ranges>>
    /\ UNCHANGED bucketVars
    /\ UNCHANGED uploadVars
    /\ UNCHANGED exhausted
    /\ UNCHANGED callVars
    /\ UNCHANGED fetchVars
    /\ UNCHANGED windowVars

\* ----------------------------------------------------------- specification
vars == <<level, granted, sent, pages, ipc, buf, url, items, next, err, out, fetchLog, ranges, ended,
          cpc, job, epc, eidx, eres, pend, wcloses, rclosed, tpc, tstatus, tres, body,
          sawEOF, drained, gerr, wg, ret, exhausted, now, calls, started, company, companyWriters,
          fpc, fresp, fa, fres, winStart, inWindow>>

NoJob == [hasFile |-> FALSE, chunks |-> 0, failAt |-> 0]
NoErr == [stage |-> "none", err |-> "nil"]

\* ------------------------------------------------------------ CreateExpense
\* The descriptors: File nil or a byte source of 0..MaxFileChunks chunks; failAt = k > 0
\* makes the k-th Read of the source return an error (k = chunks + 1: instead of EOF).
Jobs ==
    {NoJob} \cup
    { e \in [hasFile : {TRUE}, chunks : 0..MaxFileChunks, failAt : 0..(MaxFileChunks + 1)] :
        e.failAt <= e.chunks + 1 }

\* The scalar fields in alphabetical order instead of the order of the slice.
FieldsSorted == <<"expense_category_id", "notes", "project_id", "spent_date", "total_cost">>

\* The scalar fields, in the order of the slice CreateExpense ranges over.
Fields == <<"spent_date", "project_id", "expense_category_id", "notes", "total_cost">>

Chunk(kind, name, k) == [kind |-> kind, name |-> name, k |-> k]

\* The writes the encoder makes on pw when nothing fails, in order: per field the
\* part header (CreateFormField) and the value (io.WriteString); with a File the
\* header of the receipt part (CreatePart) and one write per chunk io.Copy reads;
\* then the terminator (mp.Close).
Script(e) ==
    [i \in 1..(2 * Len(Fields)) |->
        IF i % 2 = 1 THEN Chunk("header", Fields[(i + 1) \div 2], 0)
                     ELSE Chunk("value", Fields[i \div 2], 0)]
    \o (IF e.hasFile
          THEN <<Chunk("header", "receipt", 0)>> \o [k \in 1..e.chunks |-> Chunk("file", "receipt", k)]
          ELSE <<>>)
    \o <<Chunk("terminator", "", 0)>>

\* The Read of e.File that io.Copy makes before write number i fails.
ReadFails(e, i) ==
    /\ e.failAt > 0
    /\ \/ Script(e)[i].kind = "file" /\ Script(e)[i].k = e.failAt
       \/ Script(e)[i].kind = "terminator" /\ e.hasFile /\ e.failAt = e.chunks + 1

\* What client.Do can come back with: a transport error (0, no response), or a
\* response with a status.
Outcomes == {0, StatusOK, StatusCreated}

\* TransmitterError without the test of the status: every response counts as success.
TransmitterErrorLax(outcome) ==
    IF outcome = 0 THEN "transport" ELSE "nil"

\* The error the transmitter's function returns for an outcome of client.Do.
TransmitterError(outcome) ==
    IF outcome = 0 THEN "transport"
    ELSE IF outcome # StatusCreated THEN "status"
    ELSE "nil"

\* CreateExpense is called: the pipe, the multipart writer, and both g.Go calls.
CreateExpense ==
    /\ cpc = "none"
    /\ \E e \in Jobs : job' = e
    /\ cpc' = "running"
    /\ epc' = "run"
    /\ eidx' = 1
    /\ tpc' = "wait"
    /\ wg' = 2
    /\ UNCHANGED <<eres, pend, wcloses, rclosed, tstatus, tres, body, sawEOF, drained, gerr, ret>>
    /\ UNCHANGED bucketVars
    /\ UNCHANGED iterVars
    /\ UNCHANGED callVars
    /\ UNCHANGED fetchVars
    /\ UNCHANGED windowVars

\* EncoderReturns with the deferred pw.Close() left out.
EncoderReturnsNoClose(r) ==
    /\ eres' = r
    /\ epc' = "ret"
    /\ UNCHANGED <<eidx, wcloses>>

\* The encoder's function returns r: the deferred pw.Close runs.
EncoderReturns(r) ==
    /\ eres' = r
    /\ wcloses' = wcloses + 1
    /\ epc' = "ret"
    /\ UNCHANGED eidx

\* EncoderStep over a buffering conduit: a write returns without waiting for a reader.
EncoderStepBuffered ==
    /\ epc = "run"
    /\ IF eidx > Len(Script(job)) THEN EncoderReturns("nil") /\ UNCHANGED pend
       ELSE IF ReadFails(job, eidx) THEN EncoderReturns("readerr") /\ UNCHANGED pend
       ELSE IF rclosed THEN EncoderReturns("closedpipe") /\ UNCHANGED pend
       ELSE /\ eidx' = eidx + 1
            /\ UNCHANGED <<pend, epc, eres, wcloses>>
    /\ UNCHANGED <<cpc, job, rclosed, tpc, tstatus, tres, body, sawEOF, drained, gerr, wg, ret>>
    /\ UNCHANGED bucketVars
    /\ UNCHANGED iterVars
    /\ UNCHANGED callVars
    /\ UNCHANGED fetchVars
    /\ UNCHANGED windowVars

\* The encoder's function up to its next write on pw, or to its return: after the
\* last write it returns nil; an error of the byte source or of the write (the read
\* side is closed) is returned at once; otherwise the write waits for a reader.
EncoderStep ==
    /\ epc = "run"
    /\ IF eidx > Len(Script(job)) THEN EncoderReturns("nil") /\ UNCHANGED pend
       ELSE IF ReadFails(job, eidx) THEN EncoderReturns("readerr") /\ UNCHANGED pend
       ELSE IF rclosed THEN EncoderReturns("closedpipe") /\ UNCHANGED pend
       ELSE /\ pend' = <<Script(job)[eidx]>>
            /\ epc' = "blocked"
            /\ UNCHANGED <<eres, wcloses, eidx>>
    /\ UNCHANGED <<cpc, job, rclosed, tpc, tstatus, tres, body, sawEOF, drained, gerr, wg, ret>>
    /\ UNCHANGED bucketVars
    /\ UNCHANGED iterVars
    /\ UNCHANGED callVars
    /\ UNCHANGED fetchVars
    /\ UNCHANGED windowVars

\* A write waiting for a reader returns io.ErrClosedPipe once the read side is closed.
EncoderWriteAborted ==
    /\ epc = "blocked"
    /\ rclosed
    /\ pend' = <<>>
    /\ EncoderReturns("closedpipe")
    /\ UNCHANGED <<cpc, job, rclosed, tpc, tstatus, tres, body, sawEOF, drained, gerr, wg, ret>>
    /\ UNCHANGED bucketVars
    /\ UNCHANGED iterVars
    /\ UNCHANGED callVars
    /\ UNCHANGED fetchVars
    /\ UNCHANGED windowVars

\* A reader took the waiting write: the write returns and the encoder goes on.
WriteTaken ==
    /\ pend' = <<>>
    /\ epc' = "run"
    /\ eidx' = eidx + 1

\* Recorded keeping the latest non-nil error instead of the first.
RecordedLast(stage, r) ==
    IF r # "nil" THEN [stage |-> stage, err |-> r] ELSE gerr

\* errgroup, after a stage's function returned r: the first non-nil error is kept.
Recorded(stage, r) ==
    IF r # "nil" /\ gerr = NoErr THEN [stage |-> stage, err |-> r] ELSE gerr

\* errgroup's goroutine of the encoder after f() returned: record the error, g.done().
EncoderRecord ==
    /\ epc = "ret"
    /\ gerr' = Recorded("encoder", eres)
    /\ wg' = wg - 1
    /\ epc' = "done"
    /\ UNCHANGED <<cpc, job, eidx, eres, pend, wcloses, rclosed, tpc, tstatus, tres, body, sawEOF,
                   drained, ret>>
    /\ UNCHANGED bucketVars
    /\ UNCHANGED iterVars
    /\ UNCHANGED callVars
    /\ UNCHANGED fetchVars
    /\ UNCHANGED windowVars

\* The transmitter's function up to hv.bucket.Wait(1).
TransmitterWait ==
    /\ tpc = "wait"
    /\ BucketWait
    /\ tpc' = "call"
    /\ UNCHANGED sent
    /\ UNCHANGED <<cpc, job, epc, eidx, eres, pend, wcloses, rclosed, tstatus, tres, body, sawEOF,
                   drained, gerr, wg, ret>>
    /\ UNCHANGED iterVars
    /\ UNCHANGED callVars
    /\ UNCHANGED fetchVars
    /\ UNCHANGED winStart

\* hv.client.Do(req) is called with the read end of the pipe as the request body.
TransmitterDo ==
    /\ tpc = "call"
    /\ tpc' = "do"
    /\ sent' = sent + 1
    /\ UNCHANGED <<level, granted>>
    /\ UNCHANGED <<cpc, job, epc, eidx, eres, pend, wcloses, rclosed, tstatus, tres, body, sawEOF,
                   drained, gerr, wg, ret>>
    /\ UNCHANGED iterVars
    /\ UNCHANGED callVars
    /\ UNCHANGED fetchVars
    /\ UNCHANGED windowVars

\* A variant in which an aborted encoder closes the conduit with its error, so
\* that reads after that close do not report an end of stream.
TransportReadErrorMarker ==
    /\ tpc = "do"
    /\ ~sawEOF
    /\ IF wcloses > 0 /\ eres = "nil"
         THEN /\ sawEOF' = TRUE
              /\ UNCHANGED <<pend, epc, eidx, body>>
         ELSE /\ pend # <<>>
              /\ body' = Append(body, pend[1])
              /\ WriteTaken
              /\ UNCHANGED sawEOF
    /\ UNCHANGED <<cpc, job, eres, wcloses, rclosed, tpc, tstatus, tres, drained, gerr, wg, ret>>
    /\ UNCHANGED bucketVars
    /\ UNCHANGED iterVars
    /\ UNCHANGED callVars
    /\ UNCHANGED fetchVars
    /\ UNCHANGED windowVars

\* Inside client.Do the Transport reads the request body: it takes the waiting
\* write, or sees the end of the stream once the writer has closed.
TransportRead ==
    /\ tpc = "do"
    /\ ~sawEOF
    /\ IF wcloses > 0
         THEN /\ sawEOF' = TRUE
              /\ UNCHANGED <<pend, epc, eidx, body>>
         ELSE /\ pend # <<>>
              /\ body' = Append(body, pend[1])
              /\ WriteTaken
              /\ UNCHANGED sawEOF
    /\ UNCHANGED <<cpc, job, eres, wcloses, rclosed, tpc, tstatus, tres, drained, gerr, wg, ret>>
    /\ UNCHANGED bucketVars
    /\ UNCHANGED iterVars
    /\ UNCHANGED callVars
    /\ UNCHANGED fetchVars
    /\ UNCHANGED windowVars

\* TransportReturn putting the token back into the bucket when the request failed.
TransportReturnRefund ==
    /\ tpc = "do"
    /\ \E outcome \in Outcomes, closes \in BOOLEAN :
         /\ tstatus' = outcome
         /\ tres' = TransmitterError(outcome)
         /\ rclosed' = closes
         /\ tpc' = IF TransmitterError(outcome) # "nil" THEN "drain" ELSE "ret"
         /\ level' = IF TransmitterError(outcome) # "nil" /\ level < Capacity THEN level + 1 ELSE level
    /\ UNCHANGED <<cpc, job, epc, eidx, eres, pend, wcloses, body, sawEOF, drained, gerr, wg, ret>>
    /\ UNCHANGED <<granted, sent>>
    /\ UNCHANGED iterVars
    /\ UNCHANGED callVars
    /\ UNCHANGED fetchVars
    /\ UNCHANGED windowVars

\* client.Do returns, with an error or a response, having read as much of the body
\* as it did. net/http closes the request body (pr.Close) on its way out, also on
\* errors; a RoundTripper that only stops reading leaves it open, which is the case the
\* deferred drain is written for: both are possible outcomes. The transmitter's
\* function goes on to its return value; with a non-nil one its deferred function
\* starts to drain the pipe.
TransportReturn ==
    /\ tpc = "do"
    /\ \E outcome \in Outcomes, closes \in BOOLEAN :
         /\ tstatus' = outcome
         /\ tres' = TransmitterError(outcome)
         /\ rclosed' = closes
         /\ tpc' = IF TransmitterError(outcome) # "nil" THEN "drain" ELSE "ret"
    /\ UNCHANGED <<cpc, job, epc, eidx, eres, pend, wcloses, body, sawEOF, drained, gerr, wg, ret>>
    /\ UNCHANGED bucketVars
    /\ UNCHANGED iterVars
    /\ UNCHANGED callVars
    /\ UNCHANGED fetchVars
    /\ UNCHANGED windowVars

\* Drain without the copy: the deferred function returns at once.
DrainSkipped ==
    /\ tpc = "drain"
    /\ tpc' = "ret"
    /\ UNCHANGED <<cpc, job, epc, eidx, eres, pend, wcloses, rclosed, tstatus, tres, body, sawEOF,
                   drained, gerr, wg, ret>>
    /\ UNCHANGED bucketVars
    /\ UNCHANGED iterVars
    /\ UNCHANGED callVars
    /\ UNCHANGED fetchVars
    /\ UNCHANGED windowVars

\* One Read of io.Copy(io.Discard, pr) in the deferred function: it ends the copy
\* when either side of the pipe is closed, and otherwise takes the waiting write.
Drain ==
    /\ tpc = "drain"
    /\ IF rclosed \/ wcloses > 0
         THEN /\ tpc' = "ret"
              /\ UNCHANGED <<pend, epc, eidx, drained>>
         ELSE /\ pend # <<>>
              /\ drained' = Append(drained, pend[1])
              /\ WriteTaken
              /\ UNCHANGED tpc
    /\ UNCHANGED <<cpc, job, eres, wcloses, rclosed, tstatus, tres, body, sawEOF, gerr, wg, ret>>
    /\ UNCHANGED bucketVars
    /\ UNCHANGED iterVars
    /\ UNCHANGED callVars
    /\ UNCHANGED fetchVars
    /\ UNCHANGED windowVars

\* errgroup's goroutine of the transmitter after f() returned: record the error, g.done().
TransmitterRecord ==
    /\ tpc = "ret"
    /\ gerr' = Recorded("transmitter", tres)
    /\ wg' = wg - 1
    /\ tpc' = "done"
    /\ UNCHANGED <<cpc, job, epc, eidx, eres, pend, wcloses, rclosed, tstatus, tres, body, sawEOF,
                   drained, ret>>
    /\ UNCHANGED bucketVars
    /\ UNCHANGED iterVars
    /\ UNCHANGED callVars
    /\ UNCHANGED fetchVars
    /\ UNCHANGED windowVars

\* g.Wait returning as soon as an error is recorded, without waiting for both stages.
WaitReturnsOnFirstError ==
    /\ cpc = "running"
    /\ wg = 0 \/ gerr # NoErr
    /\ ret' = gerr
    /\ cpc' = "returned"
    /\ UNCHANGED <<job, epc, eidx, eres, pend, wcloses, rclosed, tpc, tstatus, tres, body, sawEOF,
                   drained, gerr, wg>>
    /\ UNCHANGED bucketVars
    /\ UNCHANGED iterVars
    /\ UNCHANGED callVars
    /\ UNCHANGED fetchVars
    /\ UNCHANGED windowVars

\* return g.Wait(): once both stages are finished, the error recorded first.
CreateExpenseReturns ==
    /\ cpc = "running"
    /\ wg = 0
    /\ ret' = gerr
    /\ cpc' = "returned"
    /\ UNCHANGED <<job, epc, eidx, eres, pend, wcloses, rclosed, tpc, tstatus, tres, body, sawEOF,
                   drained, gerr, wg>>
    /\ UNCHANGED bucketVars
    /\ UNCHANGED iterVars
    /\ UNCHANGED callVars
    /\ UNCHANGED fetchVars
    /\ UNCHANGED windowVars

\* ------------------------------------------------- concurrent operations
\* Two execution contexts calling operations of one Client.
Callers == {"c1", "c2"}

\* Every operation of the Client that sends a request.
Operations ==
    { "GetCompanyInfo", "fetchAll", "GetRecipients", "Send", "MarkSent", "AddPayment",
      "Invoice.Download", "GetAttachments", "Attachment.Download", "CreateExpense", "CreateInvoice" }

\* The operations that begin with a call of GetCompanyInfo.
CallsCompanyInfo(op) == op \in {"Invoice.Download", "GetAttachments", "Attachment.Download"}

\* A caller outside every operation.
Idle == [op |-> "none", pc |-> "idle"]

\* The clock advances by half a refill interval at a time.
TimeStep == FillInterval \div 2

\* Elapse refilling at every step of the clock, twice per refill interval.
ElapseEveryStep ==
    /\ now < MaxSteps * TimeStep
    /\ now' = now + TimeStep
    /\ level' = IF level < Capacity THEN level + 1 ELSE level
    /\ UNCHANGED <<granted, sent>>
    /\ UNCHANGED <<calls, started, company, companyWriters>>
    /\ UNCHANGED iterVars
    /\ UNCHANGED uploadVars
    /\ UNCHANGED fetchVars
    /\ UNCHANGED windowVars

\* Time passes: at every whole multiple of the refill interval since New the
\* bucket gains one token, unless it is full.
Elapse ==
    /\ now < MaxSteps * TimeStep
    /\ now' = now + TimeStep
    /\ level' = IF now' % FillInterval = 0 /\ level < Capacity THEN level + 1 ELSE level
    /\ UNCHANGED <<granted, sent>>
    /\ UNCHANGED <<calls, started, company, companyWriters>>
    /\ UNCHANGED iterVars
    /\ UNCHANGED uploadVars
    /\ UNCHANGED fetchVars
    /\ UNCHANGED windowVars

\* An observer picks the present time as the start of a window of one refill
\* interval and counts the tokens granted inside it.
WindowOpens ==
    /\ winStart = -1
    /\ winStart' = now
    /\ UNCHANGED inWindow
    /\ UNCHANGED bucketVars
    /\ UNCHANGED callVars
    /\ UNCHANGED iterVars
    /\ UNCHANGED uploadVars
    /\ UNCHANGED fetchVars

\* Where an operation goes once it is called: into GetCompanyInfo or to its own request.
Entry(op) == IF op = "GetCompanyInfo" \/ CallsCompanyInfo(op) THEN "company" ELSE "wait"

\* Where an operation goes once GetCompanyInfo returned without error.
AfterCompany(op) == IF op = "GetCompanyInfo" THEN Idle ELSE [op |-> op, pc |-> "wait"]

\* A caller calls an operation.
StartCall(c) ==
    /\ calls[c] = Idle
    /\ started < MaxCalls
    /\ started' = started + 1
    /\ \E op \in Operations : calls' = [calls EXCEPT ![c] = [op |-> op, pc |-> Entry(op)]]
    /\ UNCHANGED <<now, company, companyWriters>>
    /\ UNCHANGED bucketVars
    /\ UNCHANGED iterVars
    /\ UNCHANGED uploadVars
    /\ UNCHANGED fetchVars
    /\ UNCHANGED windowVars

\* A caller sends one request of a burst: an operation without GetCompanyInfo.
StartRequest(c) ==
    /\ calls[c] = Idle
    /\ started < MaxRequests
    /\ started' = started + 1
    /\ calls' = [calls EXCEPT ![c] = [op |-> "fetchAll", pc |-> Entry("fetchAll")]]
    /\ UNCHANGED <<now, company, companyWriters>>
    /\ UNCHANGED bucketVars
    /\ UNCHANGED iterVars
    /\ UNCHANGED uploadVars
    /\ UNCHANGED fetchVars
    /\ UNCHANGED windowVars

\* GetCompanyInfo without the test of hv.company: every call asks the server.
CompanyTestNoCache(c) ==
    /\ calls[c].pc = "company"
    /\ calls' = [calls EXCEPT ![c] = [op |-> calls[c].op, pc |-> "cwait"]]
    /\ UNCHANGED <<now, started, company, companyWriters>>
    /\ UNCHANGED bucketVars
    /\ UNCHANGED iterVars
    /\ UNCHANGED uploadVars
    /\ UNCHANGED fetchVars
    /\ UNCHANGED windowVars

\* GetCompanyInfo: if hv.company != nil { return hv.company, nil }.
CompanyTest(c) ==
    /\ calls[c].pc = "company"
    /\ calls' = [calls EXCEPT ![c] = IF company # "nil" THEN AfterCompany(calls[c].op)
                                                       ELSE [op |-> calls[c].op, pc |-> "cwait"]]
    /\ UNCHANGED <<now, started, company, companyWriters>>
    /\ UNCHANGED bucketVars
    /\ UNCHANGED iterVars
    /\ UNCHANGED uploadVars
    /\ UNCHANGED fetchVars
    /\ UNCHANGED windowVars

\* GetCompanyInfo: hv.bucket.Wait(1).
CompanyWait(c) ==
    /\ calls[c].pc = "cwait"
    /\ BucketWait
    /\ calls' = [calls EXCEPT ![c].pc = "cdo"]
    /\ UNCHANGED sent
    /\ UNCHANGED <<now, started, company, companyWriters>>
    /\ UNCHANGED iterVars
    /\ UNCHANGED uploadVars
    /\ UNCHANGED fetchVars
    /\ UNCHANGED winStart

\* GetCompanyInfo from hv.client.Do to its return: on any failure the error is
\* returned and the operation ends; otherwise hv.company = info.
CompanyDo(c) ==
    /\ calls[c].pc = "cdo"
    /\ sent' = sent + 1
    /\ \E ok \in BOOLEAN :
         IF ok
           THEN /\ company' = "info"
                /\ companyWriters' = companyWriters \cup {c}
                /\ calls' = [calls EXCEPT ![c] = AfterCompany(calls[c].op)]
           ELSE /\ calls' = [calls EXCEPT ![c] = Idle]
                /\ UNCHANGED <<company, companyWriters>>
    /\ UNCHANGED <<level, granted>>
    /\ UNCHANGED <<now, started>>
    /\ UNCHANGED iterVars
    /\ UNCHANGED uploadVars
    /\ UNCHANGED fetchVars
    /\ UNCHANGED windowVars

\* CallWait without the bucket: the request goes out with no token taken.
CallWaitNoToken(c) ==
    /\ calls[c].pc = "wait"
    /\ calls' = [calls EXCEPT ![c].pc = "do"]
    /\ UNCHANGED bucketVars
    /\ UNCHANGED <<now, started, company, companyWriters>>
    /\ UNCHANGED iterVars
    /\ UNCHANGED uploadVars
    /\ UNCHANGED fetchVars
    /\ UNCHANGED windowVars

\* The operation's own hv.bucket.Wait(1).
CallWait(c) ==
    /\ calls[c].pc = "wait"
    /\ BucketWait
    /\ calls' = [calls EXCEPT ![c].pc = "do"]
    /\ UNCHANGED sent
    /\ UNCHANGED <<now, started, company, companyWriters>>
    /\ UNCHANGED iterVars
    /\ UNCHANGED uploadVars
    /\ UNCHANGED fetchVars
    /\ UNCHANGED winStart

\* The operation's own hv.client.Do, to the return of the operation.
CallDo(c) ==
    /\ calls[c].pc = "do"
    /\ sent' = sent + 1
    /\ calls' = [calls EXCEPT ![c] = Idle]
    /\ UNCHANGED <<level, granted>>
    /\ UNCHANGED <<now, started, company, companyWriters>>
    /\ UNCHANGED iterVars
    /\ UNCHANGED uploadVars
    /\ UNCHANGED fetchVars
    /\ UNCHANGED windowVars

\* ------------------------------------- FetchInvoices / Customers / Expenses
\* Client.FetchInvoices, FetchCustomers or FetchExpenses is called: it builds the
\* URL of the first page and calls fetchAll.
FetchInvoices ==
    /\ fpc = "none"
    /\ \E chain \in PageChains : pages' = chain
    /\ fpc' = "wait"
    /\ UNCHANGED <<fresp, fa, fres>>
    /\ UNCHANGED <<ipc, buf, url, items, next, err, out, fetchLog, ranges, ended, exhausted>>
    /\ UNCHANGED bucketVars
    /\ UNCHANGED uploadVars
    /\ UNCHANGED callVars
    /\ UNCHANGED windowVars

\* fetchAll, up to hv.bucket.Wait(1).
FetchAllWait ==
    /\ fpc = "wait"
    /\ BucketWait
    /\ fpc' = "do"
    /\ UNCHANGED sent
    /\ UNCHANGED <<fresp, fa, fres>>
    /\ UNCHANGED iterVars
    /\ UNCHANGED uploadVars
    /\ UNCHANGED callVars
    /\ UNCHANGED winStart

\* fetchAll from hv.client.Do to its return.
FetchAllDo ==
    /\ fpc = "do"
    /\ \E fault \in Faults :
         LET r == fetchAllResult(Respond(pages, 1, fault)) IN
           /\ fresp' = Respond(pages, 1, fault)
           /\ fa' = r
           /\ fetchLog' = Append(fetchLog, [url |-> 1, err |-> r.err])
    /\ sent' = sent + 1
    /\ fpc' = "ret"
    /\ UNCHANGED fres
    /\ UNCHANGED <<level, granted>>
    /\ UNCHANGED <<pages, ipc, buf, url, items, next, err, out, ranges, ended, exhausted>>
    /\ UNCHANGED uploadVars
    /\ UNCHANGED callVars
    /\ UNCHANGED windowVars

\* FetchReturns following the next link on its own and returning the second page too.
FetchReturnsMore ==
    /\ fpc = "ret"
    /\ fres' = [ items |-> fa.items \o (IF fa.next # 0
                                           THEN fetchAllResult(Respond(pages, fa.next, "none")).items
                                           ELSE <<>>),
                 err |-> fa.err ]
    /\ fpc' = "returned"
    /\ UNCHANGED <<fresp, fa>>
    /\ UNCHANGED bucketVars
    /\ UNCHANGED iterVars
    /\ UNCHANGED uploadVars
    /\ UNCHANGED callVars
    /\ UNCHANGED windowVars

\* result, _, err := fetchAll(...); return result, err.
FetchReturns ==
    /\ fpc = "ret"
    /\ fres' = [items |-> fa.items, err |-> fa.err]
    /\ fpc' = "returned"
    /\ UNCHANGED <<fresp, fa>>
    /\ UNCHANGED bucketVars
    /\ UNCHANGED iterVars
    /\ UNCHANGED uploadVars
    /\ UNCHANGED callVars
    /\ UNCHANGED windowVars

\* The state after New, with no sequence built and no operation called.
Init ==
    /\ level = Capacity
    /\ granted = 0
    /\ sent = 0
    /\ pages = <<>>
    /\ ipc = "none"
    /\ buf = <<>>
    /\ url = 0
    /\ items = <<>>
    /\ next = 0
    /\ err = "nil"
    /\ out = <<>>
    /\ fetchLog = <<>>
    /\ ranges = 0
    /\ ended = "none"
    /\ cpc = "none"
    /\ job = NoJob
    /\ epc = "none"
    /\ eidx = 1
    /\ eres = "nil"
    /\ pend = <<>>
    /\ wcloses = 0
    /\ rclosed = FALSE
    /\ tpc = "none"
    /\ tstatus = 0
    /\ tres = "nil"
    /\ body = <<>>
    /\ sawEOF = FALSE
    /\ drained = <<>>
    /\ gerr = NoErr
    /\ wg = 0
    /\ ret = NoErr
    /\ exhausted = FALSE
    /\ now = 0
    /\ calls = [c \in Callers |-> Idle]
    /\ started = 0
    /\ company = "nil"
    /\ companyWriters = {}
    /\ fpc = "none"
    /\ fresp = NoResp
    /\ fa = NoResult
    /\ fres = [items |-> <<>>, err |-> "nil"]
    /\ winStart = -1
    /\ inWindow = 0

Next ==
    \/ Invoices
    \/ RangeStart
    \/ LoopTop
    \/ FetchWait
    \/ FetchDo
    \/ YieldErrReturns
    \/ CheckAndPop
    \/ YieldObjReturns
    \/ Tick

Spec == Init /\ [][Next]_vars

NextUpload ==
    \/ CreateExpense
    \/ EncoderStep
    \/ EncoderWriteAborted
    \/ EncoderRecord
    \/ TransmitterWait
    \/ TransmitterDo
    \/ TransportRead
    \/ TransportReturn
    \/ Drain
    \/ TransmitterRecord
    \/ CreateExpenseReturns
    \/ Tick

SpecUpload == Init /\ [][NextUpload]_vars

\* Both stages are goroutines and g.Wait a blocked caller: each runs when it can.
\* Nothing is assumed of the Transport and of the bucket's clock.
FairUpload ==
    /\ SpecUpload
    /\ WF_vars(EncoderStep)
    /\ WF_vars(EncoderWriteAborted)
    /\ WF_vars(EncoderRecord)
    /\ WF_vars(Drain)
    /\ WF_vars(TransmitterRecord)
    /\ WF_vars(CreateExpenseReturns)

\* Concurrent callers of the operations of one Client.
NextCalls ==
    \/ \E c \in Callers : StartCall(c)
    \/ \E c \in Callers : CompanyTest(c)
    \/ \E c \in Callers : CompanyWait(c)
    \/ \E c \in Callers : CompanyDo(c)
    \/ \E c \in Callers : CallWait(c)
    \/ \E c \in Callers : CallDo(c)
    \/ Elapse

SpecCalls == Init /\ [][NextCalls]_vars

\* Concurrent callers sending a burst of requests against the clock.
NextBucket ==
    \/ \E c \in Callers : StartRequest(c)
    \/ \E c \in Callers : CallWait(c)
    \/ \E c \in Callers : CallDo(c)
    \/ Elapse
    \/ WindowOpens

SpecBucket == Init /\ [][NextBucket]_vars

\* One call of FetchInvoices, FetchCustomers or FetchExpenses.
NextFetch ==
    \/ FetchInvoices
    \/ FetchAllWait
    \/ FetchAllDo
    \/ FetchReturns
    \/ Tick

SpecFetch == Init /\ [][NextFetch]_vars

\* ------------------------------------------------- paginated sequences
RECURSIVE Flatten(_)
\* The resources of a link chain in page order, then in-page order, as fetchAll returns them.
Flatten(chain) ==
    IF Len(chain) = 0 THEN <<>>
    ELSE fetchAllResult(Respond(chain, 1, "none")).items
         \o Flatten(Tail(chain))

\* The pairs a consumer sees when every resource of the chain is yielded without error.
AllPairs(chain) == [i \in 1..Len(Flatten(chain)) |-> [obj |-> Flatten(chain)[i], err |-> "nil"]]

NoFetchFailed == \A i \in 1..Len(fetchLog) : fetchLog[i].err = "nil"

\* The first range loop over the sequence has run until the iterator returned.
FirstRangeExhausted == ipc = "idle" /\ ranges = 1 /\ ended = "return"

\* Every page but the last holds exactly as many records as the first, the last no more.
UniformPages(chain) ==
    /\ Len(chain) >= 1
    /\ Len(chain[1]) >= 1
    /\ \A k \in 1..Len(chain) :
         IF k < Len(chain) THEN Len(chain[k]) = Len(chain[1]) ELSE Len(chain[k]) <= Len(chain[1])

CeilDiv(m, p) == (m + p - 1) \div p

\* C1: ranging to exhaustion, with no fetch failing, yields every element of every
\* page of the link chain exactly once, in page order then in-page order, and ends.
C1_YieldsWholeChain ==
    (FirstRangeExhausted /\ NoFetchFailed) => out = AllPairs(pages)

\* C2: the sequence ends only once the buffer is empty and no next-link remains; a
\* successful fetch of an empty page that carries a next-link does not end it.
C2_EndsOnlyWithoutNextLink ==
    (ipc = "idle" /\ ended = "return") => (Len(buf) = 0 /\ url = 0)

\* C3: ranging to exhaustion, with no fetch failing, calls fetchAll exactly once per
\* page of the link chain, in chain order. (Stated for chains whose last page holds
\* data, where every page is one with data or an empty one that carries a next-link.)
C3_OneFetchPerPage ==
    (FirstRangeExhausted /\ NoFetchFailed /\ Len(pages[Len(pages)]) > 0) =>
        (/\ Len(fetchLog) = Len(pages)
         /\ \A i \in 1..Len(fetchLog) : fetchLog[i].url = i)

\* C4: once the consumer has stopped after m elements of a chain of full pages (no
\* fetch having failed), at most ceil(m / page size) calls of fetchAll were made; and
\* while no range loop runs, no fetch is issued, no request sent and no token taken.
C4_StopFetchesNoFurther ==
    [][ /\ (ipc = "idle") => (fetchLog' = fetchLog /\ sent' = sent /\ granted' = granted)
        /\ (ipc' = "idle" /\ ended' = "break" /\ UniformPages(pages') /\ NoFetchFailed')
             => Len(fetchLog') <= CeilDiv(Len(out'), Len(pages'[1])) ]_vars

\* The consumer stopped inside the second page of a chain of full pages.
C4_Witness ==
    /\ ipc = "idle" /\ ended = "break" /\ UniformPages(pages) /\ NoFetchFailed
    /\ Len(fetchLog) = 2
    /\ Len(out) = 3
    /\ Len(out) < Len(Flatten(pages))

\* C5: building the sequence sends no request and takes no token; a fetch is only
\* made inside a pull that found the buffer empty and a URL left; and the buffer
\* never holds elements of more than one page.
C5_LazyOnePage ==
    /\ []((ipc = "idle" /\ ranges = 0) => (sent = 0 /\ granted = 0 /\ fetchLog = <<>>))
    /\ [](\A i, j \in 1..Len(buf) : buf[i].page = buf[j].page)
    /\ [][ (fetchLog' # fetchLog \/ sent' # sent \/ granted' # granted)
             => (ipc \in {"wait", "do"} /\ Len(buf) = 0 /\ url # 0) ]_vars

\* A second page was fetched inside a pull and one of its elements is still buffered.
C5_Witness ==
    /\ ipc = "yieldObj"
    /\ Len(fetchLog) = 2
    /\ Len(buf) = 1
    /\ buf[1].page = 2

\* ------------------------------------------------------- streaming upload
\* The transmitter's function has returned (its deferred function included).
TransmitterFinished == tpc \in {"ret", "done"}

\* The encoder's function has returned.
EncoderFinished == epc \in {"ret", "done"}

\* C6: when the transmitter fails (a transport error or a status other than 201), its
\* deferred drain takes every write the encoder still makes until the stream ends, so
\* once the drain is over no write of the encoder can wait for a reader any more (the
\* encoder has closed its end, or the read side is closed and writes return at once);
\* both stages finish and CreateExpense returns.
C6_DrainUnblocksEncoder ==
    /\ []((TransmitterFinished /\ tres # "nil") => (wcloses > 0 \/ rclosed))
    /\ []((TransmitterFinished /\ tres # "nil" /\ ~rclosed) => (pend = <<>> /\ EncoderFinished))
    /\ (tpc = "drain") ~> (cpc = "returned")

\* The transmitter failed before the encoder had written its file, the drain took
\* the rest of the stream, and CreateExpense has returned.
C6_Witness ==
    /\ cpc = "returned"
    /\ tres # "nil"
    /\ job.hasFile /\ job.chunks = MaxFileChunks /\ job.failAt = 0
    /\ body = <<>>
    /\ Len(drained) = Len(Script(job))
    /\ eres = "nil"

\* C7: when the transmitter fails while the encoder is still streaming (the byte
\* source itself never fails), the error CreateExpense returns is the transmitter's.
C7_ReturnsTransmitterError ==
    (cpc = "returned" /\ tres # "nil" /\ ~sawEOF /\ job.failAt = 0)
        => ret = [stage |-> "transmitter", err |-> tres]

\* C8: with a byte source that does not fail and any Transport that answers 201, the
\* encoder ends having written everything, and the transmitter is never finished
\* with success while a write of the encoder waits for a reader that is gone.
C8_AnyTransport201 ==
    /\ (TransmitterFinished /\ tres = "nil" /\ job.failAt = 0 /\ EncoderFinished) => eres = "nil"
    /\ (TransmitterFinished /\ tres = "nil") => ~(epc = "blocked" /\ ~rclosed)

\* The success path when the Transport reads the request body to its end before it
\* answers 201: the encoder has written everything and closed the pipe once, no write
\* waits, both stages finish and CreateExpense returns nil.
C8_SuccessPathShutsDown ==
    /\ []((TransmitterFinished /\ tres = "nil" /\ sawEOF)
            => (EncoderFinished /\ pend = <<>> /\ wcloses = 1))
    /\ []((TransmitterFinished /\ tres = "nil" /\ sawEOF /\ job.failAt = 0)
            => (eres = "nil" /\ body = Script(job)))
    /\ []((cpc = "returned" /\ tres = "nil" /\ sawEOF /\ job.failAt = 0) => ret = NoErr)
    /\ (TransmitterFinished /\ tres = "nil" /\ sawEOF) ~> (cpc = "returned")

\* The whole body of an upload with a file was read, 201 answered, nil returned.
C8_Witness ==
    /\ cpc = "returned"
    /\ tstatus = StatusCreated
    /\ sawEOF
    /\ job.hasFile /\ job.chunks = MaxFileChunks
    /\ body = Script(job)
    /\ ret = NoErr

\* C9: CreateExpense returns nil exactly when the encoder's function returned nil and
\* the response had status 201; the transmitter's function returns an error for a
\* transport error and for every other status.
C9_NilIffBothSucceed ==
    /\ (cpc = "returned") => ((ret.err = "nil") <=> (eres = "nil" /\ tstatus = StatusCreated))
    /\ TransmitterFinished => ((tres = "nil") <=> (tstatus = StatusCreated))

\* CreateExpense returned an error although the response was 201: the encoder failed.
C9_Witness ==
    /\ cpc = "returned"
    /\ tstatus = StatusCreated
    /\ eres = "readerr"
    /\ ret = [stage |-> "encoder", err |-> "readerr"]

\* C10: CreateExpense has returned only when both stages are finished and recorded.
C10_ReturnsAfterBothStages ==
    (cpc = "returned") => (epc = "done" /\ tpc = "done" /\ wg = 0)

\* CreateExpense returned an error of the transmitter after the encoder had finished too.
C10_Witness ==
    /\ cpc = "returned"
    /\ ret.stage = "transmitter"
    /\ epc = "done" /\ tpc = "done"
    /\ Len(drained) > 0

\* ------------------------------------------------------- claims C11 .. C13
\* The errors fetchAll returned so far, and the error-carrying pairs handed to yield.
FetchErrors == SelectSeq(fetchLog, LAMBDA f : f.err # "nil")
OutErrors == SelectSeq(out, LAMBDA p : p.err # "nil")

\* C11: a failed fetchAll never ends the sequence silently: in every state, each
\* error fetchAll has returned (transport, status or decode) was handed to the
\* consumer as a pair with a nil object and that error, in the order of the calls;
\* so the pair is there before the range ends.
C11_ErrorSurfaced ==
    /\ Len(OutErrors) = Len(FetchErrors)
    /\ \A i \in 1..Len(FetchErrors) :
         OutErrors[i] = [obj |-> NilObj, err |-> FetchErrors[i].err]

\* The second page failed to decode after the two elements of the first were yielded.
C11_Witness ==
    /\ ipc = "yieldErr"
    /\ err = "decode"
    /\ Len(fetchLog) = 2
    /\ Len(out) = 3
    /\ out[3] = [obj |-> NilObj, err |-> "decode"]

\* C12: a fetch error is terminal. When yield(nil, err) returns true the closure
\* is left with an empty buffer and no URL; from a sequence with an empty buffer
\* and no URL no step yields a pair, calls fetchAll, takes a token or sends a
\* request, and the buffer and URL stay as they are; and the check of the empty
\* buffer ends the range by a return.
C12_ErrorIsTerminal ==
    [][ /\ (ipc = "yieldErr" /\ ipc' \notin {"yieldErr", "idle"}) => (ipc' = "check" /\ Len(buf') = 0 /\ url' = 0)
        /\ (ipc # "none" /\ Len(buf) = 0 /\ url = 0)
              => /\ out' = out /\ fetchLog' = fetchLog
                 /\ sent' = sent /\ granted' = granted
                 /\ Len(buf') = 0 /\ url' = 0
        /\ (ipc = "check" /\ Len(buf) = 0 /\ ipc' # ipc) => (ipc' = "idle" /\ ended' = "return")
      ]_vars

\* The consumer went on after the error of the first page of a longer chain, ranged
\* again, and got nothing more.
C12_Witness ==
    /\ ipc = "idle"
    /\ ended = "return"
    /\ ranges = 2
    /\ Len(pages) = MaxPages
    /\ Len(fetchLog) = 1
    /\ fetchLog[1].err = "status"
    /\ out = <<[obj |-> NilObj, err |-> "status"]>>

\* C13: once a range over the sequence has ended by the iterator returning (the
\* sequence was pulled to exhaustion), no later step yields a pair, calls
\* fetchAll, takes a token or sends a request.
C13_ExhaustedIsAbsorbing ==
    [][ exhausted => (out' = out /\ fetchLog' = fetchLog /\ sent' = sent /\ granted' = granted) ]_vars

\* ------------------------------------------------------- claims C14 .. C16
\* The execution contexts that were granted a token and have not yet handed their
\* request to hv.client.Do: concurrent callers, the sequence, the transmitter and
\* the fetchAll of FetchInvoices.
TokensHeld ==
    Cardinality({c \in Callers : calls[c].pc \in {"cdo", "do"}})
      + (IF ipc = "do" THEN 1 ELSE 0) + (IF tpc = "call" THEN 1 ELSE 0)
      + (IF fpc = "do" THEN 1 ELSE 0)

\* C14: whatever operations run and however they interleave, every request handed
\* to hv.client.Do used up exactly one token granted to its caller just before:
\* the requests sent never exceed the tokens granted, and the difference is the
\* number of callers standing between their bucket.Wait(1) and their Do.
C14_TokenBeforeRequest ==
    /\ sent <= granted
    /\ granted - sent = TokensHeld

\* Both callers hold a token at once, in GetCompanyInfo and in another operation,
\* after a first request went out.
C14_Witness ==
    /\ sent = 1
    /\ granted = 3
    /\ calls["c1"].pc = "cdo"
    /\ calls["c2"] = [op |-> "Send", pc |-> "do"]

\* C15: with the bucket full at New, the requests admitted (tokens granted) to all
\* callers together by the time T since New are at most the capacity plus one
\* for every whole refill interval in T.
C15_AdmittedWithinRate == granted <= Capacity + (now \div FillInterval)

\* The bucket was emptied in the first interval, and the token of the first refill
\* was granted too, while the other caller waits.
C15_Witness ==
    /\ now = FillInterval
    /\ granted = Capacity + 1
    /\ level = 0
    /\ \E c \in Callers : calls[c].pc = "wait"

ScalarParts ==
    << Chunk("header", "spent_date", 0), Chunk("value", "spent_date", 0),
       Chunk("header", "project_id", 0), Chunk("value", "project_id", 0),
       Chunk("header", "expense_category_id", 0), Chunk("value", "expense_category_id", 0),
       Chunk("header", "notes", 0), Chunk("value", "notes", 0),
       Chunk("header", "total_cost", 0), Chunk("value", "total_cost", 0) >>

\* The receipt part of a descriptor with a File: its header, then the chunks of
\* the byte source in source order; nothing without a File.
ReceiptPart(e) ==
    IF e.hasFile
      THEN <<Chunk("header", "receipt", 0)>> \o [k \in 1..e.chunks |-> Chunk("file", "receipt", k)]
      ELSE <<>>

\* C17: when both stages have returned and neither failed, what the Transport read
\* from the request body is the scalar parts in the declared order, then the
\* receipt part iff File is non-nil, then the multipart terminator; nothing went
\* to the drain, and the stream ends there: the write side is closed with no
\* write waiting.
C17_StreamContent ==
    (TransmitterFinished /\ EncoderFinished /\ tres = "nil" /\ eres = "nil")
      => /\ body = ScalarParts \o ReceiptPart(job) \o <<Chunk("terminator", "", 0)>>
         /\ drained = <<>>
         /\ wcloses = 1
         /\ pend = <<>>

\* An upload with a File of MaxFileChunks chunks went through, the Transport
\* answering 201 after the terminator without reading on to the end of the stream.
C17_Witness ==
    /\ cpc = "returned"
    /\ ret = NoErr
    /\ job.hasFile
    /\ job.chunks = MaxFileChunks
    /\ ~sawEOF
    /\ Len(body) = Len(ScalarParts) + 1 + MaxFileChunks + 1
    /\ body[Len(ScalarParts) + 1] = Chunk("header", "receipt", 0)
    /\ body[Len(body)] = Chunk("terminator", "", 0)

\* C18: the encoder closes its end of the pipe exactly once, when its function
\* returns, whatever it returns; after the close no write waits or completes, no
\* chunk reaches a reader any more, and a reader comes to the end of the stream
\* only after the close.
C18_ClosedExactlyOnce ==
    /\ [](wcloses <= 1)
    /\ [](EncoderFinished <=> wcloses = 1)
    /\ [](wcloses > 0 => pend = <<>>)
    /\ [](sawEOF => wcloses = 1)
    /\ [][ wcloses > 0 => (wcloses' = wcloses /\ pend' = <<>> /\ eidx' = eidx
                            /\ body' = body /\ drained' = drained) ]_vars

\* The byte source failed on its last read; the encoder closed its end and the
\* Transport read the truncated body to its end.
C18_Witness ==
    /\ eres = "readerr"
    /\ job.failAt = MaxFileChunks + 1
    /\ wcloses = 1
    /\ sawEOF
    /\ Len(body) = Len(ScalarParts) + 1 + MaxFileChunks

\* C19: the pipe holds at most one write, and only while the encoder is blocked
\* inside it; the writes that have completed are exactly the chunks the Transport
\* or the drain has read; and a write completes only in the step in which a reader
\* takes its chunk.
C19_OnePendingWrite ==
    /\ [](Len(pend) <= 1)
    /\ [](pend # <<>> <=> epc = "blocked")
    /\ [](cpc # "none" => eidx - 1 = Len(body) + Len(drained))
    /\ [][ eidx' # eidx => /\ eidx' = eidx + 1
                            /\ pend # <<>>
                            /\ \/ body' = Append(body, pend[1]) /\ drained' = drained
                               \/ drained' = Append(drained, pend[1]) /\ body' = body ]_vars

\* The encoder is blocked writing the last chunk of the file while everything
\* before it has been read by the Transport.
C19_Witness ==
    /\ epc = "blocked"
    /\ tpc = "do"
    /\ pend = <<Chunk("file", "receipt", MaxFileChunks)>>
    /\ Len(body) = Len(ScalarParts) + MaxFileChunks
    /\ eidx = Len(body) + 1

\* ------------------------------------------------------------- claim C20
\* C20: apart from the token counter of the bucket, no state of the Client is
\* written by more than one execution context: hv.company is assigned by at
\* most one of the concurrent callers.
C20_OnlyBucketShared == Cardinality(companyWriters) <= 1

\* ------------------------------------------------------- claims C21 .. C23
\* The fetchAll of FetchInvoices / FetchCustomers / FetchExpenses has returned.
Served == fpc \in {"ret", "returned"}

\* C21: fetchAll returns an error for every response whose status is not 200, and
\* whenever it returns an error (transport, status or decode) it returns no
\* elements and an empty next link; so does the operation that called it.
C21_NoPartialResult ==
    Served =>
      /\ (~fresp.transportErr /\ fresp.status # StatusOK) => fa.err = "status"
      /\ fa.err # "nil" => (fa.items = <<>> /\ fa.next = 0)
      /\ (fpc = "returned" /\ fres.err # "nil") => fres.items = <<>>

\* A response with another status, a full page of records and a next link.
C21_Witness ==
    /\ fpc = "returned"
    /\ fresp.status = StatusCreated
    /\ Len(fresp.records) = MaxPageLen
    /\ fresp.linksNext # 0
    /\ fa = [items |-> <<>>, next |-> 0, err |-> "status"]

\* C22: on a 200 response whose body is malformed, or whose envelope lacks the
\* element field, fetchAll returns a decode error, never an empty page.
C22_DecodeError ==
    (Served /\ ~fresp.transportErr /\ fresp.status = StatusOK
       /\ (~fresp.wellFormed \/ ~fresp.hasField))
      => fa.err = "decode"

\* A well-formed 200 envelope with links but without the element field.
C22_Witness ==
    /\ fpc = "returned"
    /\ fresp.status = StatusOK
    /\ fresp.wellFormed
    /\ fresp.hasLinks
    /\ ~fresp.hasField
    /\ fres = [items |-> <<>>, err |-> "decode"]

\* C23: on a well-formed 200 response that carries the element field and no next
\* link, whether links.next is empty or the links object is absent, fetchAll
\* returns the elements of the page with an empty next link and no error.
C23_NoNextLinkSucceeds ==
    (Served /\ ~fresp.transportErr /\ fresp.status = StatusOK
       /\ fresp.wellFormed /\ fresp.hasField /\ fresp.linksNext = 0)
      => /\ fa.err = "nil"
         /\ fa.next = 0
         /\ Len(fa.items) = Len(fresp.records)

\* ------------------------------------------------------------- claim C24
\* C24: no step of an operation gives a token back: the level of the bucket rises
\* only by one, in a step of time in which no operation moves and nothing is
\* granted or sent; and once the request of CreateExpense was attempted exactly
\* one token has been granted and one request sent, whatever the stages return.
C24_NoRefund ==
    /\ [][ level' > level
             => /\ level' = level + 1
                /\ granted' = granted /\ sent' = sent
                /\ <<cpc, epc, tpc, ipc, fpc, calls>>' = <<cpc, epc, tpc, ipc, fpc, calls>> ]_vars
    /\ [](tpc \in {"do", "drain", "ret", "done"} => (granted = 1 /\ sent = 1))

\* The request failed in the transport and the byte source failed too; the token
\* is gone and no refill has happened since.
C24_Witness ==
    /\ cpc = "returned"
    /\ tres = "transport"
    /\ eres = "readerr"
    /\ granted = 1
    /\ level = Capacity - 1

\* ------------------------------------------------------------- claim C25
\* C25: every resource fetchAll returned to the sequence, waiting in the buffer or
\* already yielded without error, has its Hv field set to the Client.
C25_BackReferenceSet ==
    /\ \A i \in 1..Len(buf) : buf[i].Hv = "hv"
    /\ \A i \in 1..Len(out) : out[i].err = "nil" => out[i].obj.Hv = "hv"

\* The first element of the second page was just yielded.
C25_Witness ==
    /\ ipc = "yieldObj"
    /\ Len(fetchLog) = 2
    /\ Len(out) = MaxPageLen + 1
    /\ out[Len(out)] = [obj |-> [page |-> 2, idx |-> 1, Hv |-> "hv"], err |-> "nil"]

\* ------------------------------------------------------------- claim C26
\* C26: when both stages of CreateExpense failed, CreateExpense returns the error
\* the errgroup recorded first: it is the error of one of the two stages, with
\* the stage it came from, never nil; the errgroup records an error only when a
\* stage's function has returned it, and never replaces a recorded error.
C26_FirstRecordedReturned ==
    /\ []((cpc = "returned" /\ eres # "nil" /\ tres # "nil")
            => /\ ret = gerr
               /\ ret.err # "nil"
               /\ ret \in { [stage |-> "encoder", err |-> eres],
                             [stage |-> "transmitter", err |-> tres] })
    /\ [][ gerr' # gerr
             => /\ gerr = NoErr
                /\ \/ epc = "ret" /\ epc' = "done" /\ gerr' = [stage |-> "encoder", err |-> eres]
                   \/ tpc = "ret" /\ tpc' = "done" /\ gerr' = [stage |-> "transmitter", err |-> tres]
          ]_vars

\* The status was wrong and the encoder's write hit the closed pipe; the encoder's
\* error was recorded first and is the one returned.
C26_Witness ==
    /\ cpc = "returned"
    /\ tres = "status"
    /\ eres = "closedpipe"
    /\ ret = [stage |-> "encoder", err |-> "closedpipe"]

\* ------------------------------------------------------------- claim C27
\* C27: whichever window of one refill interval is observed, at most Capacity
\* tokens are granted inside it.
C27_WindowBound == inWindow <= Capacity

\* ------------------------------------------------------------- claim C28
\* C28: every pair handed to yield has exactly one meaningful slot: a resource
\* with a nil error, or no resource with a non-nil error.
C28_OneMeaningfulSlot ==
    \A i \in 1..Len(out) :
        \/ out[i].obj # NilObj /\ out[i].err = "nil"
        \/ out[i].obj = NilObj /\ out[i].err # "nil"

\* A resource was yielded, then the error of the next fetch, and the consumer stopped.
C28_Witness ==
    /\ ipc = "idle"
    /\ ended = "break"
    /\ Len(out) = 2
    /\ out[1].err = "nil"
    /\ out[1].obj # NilObj
    /\ out[2] = [obj |-> NilObj, err |-> "transport"]

\* ------------------------------------------------------------- claim C29
\* C29: a call of FetchInvoices, FetchCustomers or FetchExpenses that has returned
\* made exactly one call of fetchAll, for the first page, with one token and one
\* request; it returns what fetchAll returned for that page and nothing of a
\* later page, whether or not the response carried a next link.
C29_FirstPageOnly ==
    fpc = "returned"
      => /\ Len(fetchLog) = 1 /\ fetchLog[1].url = 1
         /\ granted = 1 /\ sent = 1
         /\ fres.err = fa.err
         /\ fres.err = "nil"
              => /\ Len(fres.items) = Len(pages[1])
                 /\ \A i \in 1..Len(fres.items) :
                      fres.items[i] = [page |-> 1, idx |-> i, Hv |-> "hv"]

\* The first page of the longest chain came back full, with a next link.
C29_Witness ==
    /\ fpc = "returned"
    /\ Len(pages) = MaxPages
    /\ Len(pages[2]) = MaxPageLen
    /\ fa.next = 2
    /\ fres.err = "nil"
    /\ Len(fres.items) = MaxPageLen

\* ------------------------------------------------------------- claim C30
\* The latest call of fetchAll.
LastFetch == fetchLog[Len(fetchLog)]

\* C30: when the consumer stops at the error element, the closure keeps the URL
\* whose fetch failed and its empty buffer; and a call of fetchAll that follows
\* a failed one, which only a later range can make, is for that same URL.
C30_StopAtErrorKeepsCursor ==
    [][ /\ (ipc = "yieldErr" /\ ipc' = "idle")
              => (url' = LastFetch.url /\ url' # 0 /\ Len(buf') = 0 /\ ended' = "break")
        /\ (Len(fetchLog) > 0 /\ LastFetch.err # "nil" /\ Len(fetchLog') > Len(fetchLog))
              => (fetchLog'[Len(fetchLog')].url = LastFetch.url /\ ranges > 1)
      ]_vars

\* The fetch of the second page failed, the consumer stopped at the error, ranged
\* again, and the second page was fetched again, this time with success.
C30_Witness ==
    /\ ranges = 2
    /\ Len(fetchLog) = 3
    /\ fetchLog[2] = [url |-> 2, err |-> "status"]
    /\ fetchLog[3] = [url |-> 2, err |-> "nil"]
    /\ \E i \in 1..Len(out) : out[i].err = "status"

\* C31: the cursor (buf, url) persists across ranges over the same sequence
\* value.  Absent fetch errors, whatever the number of ranges started and
\* abandoned, the elements yielded so far are exactly the first elements of the
\* chain in order (none twice, none skipped), the page URLs fetched are
\* 1, 2, 3, ... each once, and a range start leaves the cursor untouched.
C31_CursorPersists ==
    /\ NoFetchFailed =>
          /\ Len(out) <= Len(AllPairs(pages))
          /\ \A i \in 1..Len(out) : out[i] = AllPairs(pages)[i]
          /\ \A i \in 1..Len(fetchLog) : fetchLog[i].url = i
    /\ (ipc = "top" /\ NoFetchFailed) =>
          Len(out) + Len(buf) = Len(Flatten(SubSeq(pages, 1, Len(fetchLog))))

\* The second range, started after the first was abandoned by a break in the
\* middle of page two, is yielding the fourth element; page two was not
\* fetched again.
C31_Witness ==
    /\ ranges = 2
    /\ ipc = "yieldObj"
    /\ ~exhausted
    /\ NoFetchFailed
    /\ Len(pages) = 3
    /\ Len(out) = 4
    /\ Len(buf) = 0
    /\ Len(fetchLog) = 2

\* C32: when the encoder stage aborts on an error of the byte source, it closes
\* the conduit once, with no error marker: nothing is left waiting, the
\* transport's next read is an ordinary end of stream, the body it has read by
\* then is exactly the parts written before the failing read and holds no
\* multipart terminator, and the call still took one token and sent one request.
C32_AbortLooksLikeEndOfStream ==
    /\ eres = "readerr" =>
          /\ wcloses = 1
          /\ pend = <<>>
          /\ \A i \in 1..Len(body) : body[i].kind # "terminator"
          /\ \A i \in 1..Len(drained) : drained[i].kind # "terminator"
          /\ Len(body) + Len(drained) < Len(Script(job))
    /\ (eres = "readerr" /\ tpc = "do" /\ ~sawEOF) => ENABLED (TransportRead /\ sawEOF')
    /\ (eres = "readerr" /\ sawEOF) =>
          /\ body = SubSeq(Script(job), 1, eidx - 1)
          /\ drained = <<>>
    /\ (eres = "readerr" /\ cpc = "returned") => (granted = 1 /\ sent = 1)

\* The first read of the file failed, the transport read the scalar fields and
\* the receipt header up to the end of stream, and the server answered 201.
C32_Witness ==
    /\ eres = "readerr"
    /\ job.failAt = 1
    /\ sawEOF
    /\ tstatus = StatusCreated
    /\ Len(body) = 2 * Len(Fields) + 1
    /\ body[Len(body)] = Chunk("header", "receipt", 0)
    /\ granted = 1
    /\ sent = 1

\* C33: once hv.company is set it never changes, and a GetCompanyInfo that finds
\* it set (called directly or inside Invoice.Download, GetAttachments or
\* Attachment.Download) returns it at once, taking no token and sending no
\* request; one that finds it unset goes on to ask the server.  A GetCompanyInfo
\* that fails leaves hv.company as it was and ends the operation that called it,
\* which so sends no request of its own.
C33_CompanyCachedOnce ==
    [][ /\ company # "nil" => company' = company
        /\ \A c \in Callers :
             /\ (calls[c].pc = "company" /\ company # "nil" /\ calls'[c] # calls[c]) =>
                   /\ calls'[c] = AfterCompany(calls[c].op)
                   /\ granted' = granted
                   /\ sent' = sent
                   /\ level' = level
             /\ (calls[c].pc = "company" /\ company = "nil" /\ calls'[c] # calls[c]) =>
                   calls'[c] = [op |-> calls[c].op, pc |-> "cwait"]
             /\ (calls[c].pc = "cdo" /\ calls'[c] # calls[c] /\ companyWriters' = companyWriters) =>
                   /\ company' = company
                   /\ calls'[c] = Idle
                   /\ sent' = sent + 1
      ]_vars

\* c2 has fetched the company information; c1's Invoice.Download then took it
\* from hv.company and holds the token of its own request: two tokens, one
\* request sent.
C33_Witness ==
    /\ company = "info"
    /\ companyWriters = {"c2"}
    /\ calls["c2"] = Idle
    /\ calls["c1"] = [op |-> "Invoice.Download", pc |-> "do"]
    /\ started = 2
    /\ granted = 2
    /\ sent = 1

====
